---- MODULE Spec2Model ----
(***************************************************************************)
(* Model of ScheduledTasksService (src/src/scheduled-tasks.service.ts,     *)
(* the second definition of the class, lines 217-459): the 30-second cron  *)
(* trigger handleCron, the pass processTransactions and the batch executor *)
(* sendSolanaTransactions, together with the tables they read and write    *)
(* and the Solana network they submit to.                                  *)
(*                                                                         *)
(* Units.  sol_quantity is counted in milli-SOL and every fee amount in    *)
(* micro-SOL, so that sol_quantity * 0.002 is the integer 2 * quantity and *)
(* the threshold 0.001 SOL is 1000.  Lamports are 1/1000 micro-SOL.        *)
(*                                                                         *)
(* Each await of the code is a point where another pass, or the upstream   *)
(* writer of the transactions table, may run.  Awaits whose order against  *)
(* the other processes cannot be observed are merged into one action.      *)
(***************************************************************************)
EXTENDS Integers, Sequences, FiniteSets, Bags, TLC

\* ---------------------------------------------------------------- bounds
NumRecipients == 11     \* creator wallets, one coin each
MaxPasses == 3          \* cron triggers that fire in a behaviour
MaxRunning == 2         \* passes in flight at a time
MaxInserts == 1         \* events the upstream writer adds while the service runs
MaxFaults == 3          \* failing network / database calls in a behaviour

\* ------------------------------------------------------ program constants
BATCH_SIZE == 10
MAX_RETRIES == 3
MIN_AMOUNT_THRESHOLD == 1000     \* 0.001 SOL in micro-SOL
FEE_RATE_MILLI == 2              \* the factor 0.002, as micro-SOL per milli-SOL
FEE_ADJUSTMENT_PCT == 99         \* the factor 0.99
LAMPORTS_PER_MICRO == 1000       \* LAMPORTS_PER_SOL / 10^6

SmallQty == 250         \* 0.25 SOL: fee 0.0005 SOL, below the threshold
BigQty == 10000         \* 10 SOL: fee 0.02 SOL

Recipients == 1..NumRecipients
PassIds == 1..MaxPasses

VARIABLES
  transactions,         \* table transactions: row id |-> [coin_id, sol_quantity]
  transaction_tracker,  \* committed rows [timestamp, max_transaction_id]
  fee_distributions,    \* committed rows (a bag) [receiver_address, transaction_hash, amount]
  users,                \* users.fees_claimed_so_far by wallet_address
  chain,                \* transfers the network has decided, with what the service was told
  pc,                   \* where each pass is
  status,               \* "none", "Running", "Committed", "Aborted"
  maxTransactionId,     \* processTransactions: the cursor read (0 for no row)
  window,               \* the highest event id the pass's aggregation saw
  distributions,        \* the rows handed to sendSolanaTransactions, filtered
  i,                    \* sendSolanaTransactions: start of the current batch (1-based)
  retryCount,           \* sendSolanaTransactions: retryCount of the current batch
  newMaxTransactionId,  \* processTransactions: the re-read MAX(id)
  started,              \* cron triggers fired so far
  inserted,             \* events added since the service started
  faults                \* failing calls so far

vars == <<transactions, transaction_tracker, fee_distributions, users, chain, pc,
          status, maxTransactionId, window, distributions, i, retryCount,
          newMaxTransactionId, started, inserted, faults>>

passVars == <<pc, status, maxTransactionId, window, distributions, i, retryCount,
              newMaxTransactionId>>

\* --------------------------------------------------------------- helpers
Max(a, b) == IF a >= b THEN a ELSE b
Min(a, b) == IF a <= b THEN a ELSE b

\* table coins: mint_address |-> creator_wallet_address (one coin per creator)
coins == [c \in Recipients |-> c]

\* SUM(t.sol_quantity * 0.002) over the rows with cursor < id <= upto whose
\* coin belongs to creator w
RECURSIVE total_sol(_, _, _, _)
total_sol(txs, w, cursor, upto) ==
  IF upto <= cursor THEN 0
  ELSE total_sol(txs, w, cursor, upto - 1)
       + (IF coins[txs[upto].coin_id] = w
            THEN txs[upto].sol_quantity * FEE_RATE_MILLI ELSE 0)

\* creators with at least one row after the cursor (GROUP BY)
Groups(txs, cursor) ==
  {coins[txs[id].coin_id] : id \in {k \in 1..Len(txs) : k > cursor}}

\* the aggregation query without its WHERE t.id > $1
RECURSIVE AccumulatedFeesAll(_, _, _)
AccumulatedFeesAll(txs, cursor, w) ==
  IF w = 0 THEN <<>>
  ELSE LET rest == AccumulatedFeesAll(txs, cursor, w - 1)
           total == total_sol(txs, w, 0, Len(txs))
       IN IF w \in Groups(txs, 0) /\ total >= MIN_AMOUNT_THRESHOLD
            THEN Append(rest, [recipient |-> w, amount |-> total])
            ELSE rest

\* the aggregation query, rows in ascending order of creator
RECURSIVE AccumulatedFees(_, _, _)
AccumulatedFees(txs, cursor, w) ==
  IF w = 0 THEN <<>>
  ELSE LET rest == AccumulatedFees(txs, cursor, w - 1)
           total == total_sol(txs, w, cursor, Len(txs))
       IN IF w \in Groups(txs, cursor) /\ total >= MIN_AMOUNT_THRESHOLD
            THEN Append(rest, [recipient |-> w, amount |-> total])
            ELSE rest

\* distributions.filter(dist => dist.amount >= MIN_AMOUNT_THRESHOLD)
validDistributions(ds) == SelectSeq(ds, LAMBDA d : d.amount >= MIN_AMOUNT_THRESHOLD)

\* a slice that runs one element too far
BatchOverlapping(ds, start) == SubSeq(ds, start, Min(Len(ds), start + BATCH_SIZE))

\* validDistributions.slice(i, i + BATCH_SIZE), with i counted from 1
Batch(ds, start) == SubSeq(ds, start, Min(Len(ds), start + BATCH_SIZE - 1))

\* Math.floor(dist.amount * LAMPORTS_PER_SOL * FEE_ADJUSTMENT); the factors are
\* multiplied first to stay within TLC's integers, which changes nothing as
\* 99 * 1000 is a multiple of 100
adjustedAmount(amount) == amount * ((LAMPORTS_PER_MICRO * FEE_ADJUSTMENT_PCT) \div 100)

\* the instructions of the Transaction built for a batch
Transfers(batch) ==
  [k \in 1..Len(batch) |->
     [toPubkey |-> batch[k].recipient, lamports |-> adjustedAmount(batch[k].amount)]]

\* SELECT max_transaction_id FROM transaction_tracker ORDER BY timestamp DESC
\* LIMIT 1, with `maxTransactionId || 0` for no row
Cursor(tracker) ==
  IF tracker = {} THEN 0
  ELSE (CHOOSE r \in tracker : \A s \in tracker : s.timestamp <= r.timestamp).max_transaction_id

\* SELECT MAX(id) FROM transactions (0 stands for NULL)
MaxId(txs) == Len(txs)

\* the transaction_tracker.timestamp a pass's row gets: the column default is
\* the start time of the inserting transaction, and passes start in order
TxTimestamp(p) == p

\* ------------------------------------------------- the local batch write
\* statement number k of the loop at lines 344-355: INSERT INTO
\* fee_distributions for odd k, UPDATE users for even k
Statement(db, batch, sig, k) ==
  LET dist == batch[(k + 1) \div 2]
  IN IF k % 2 = 1
       THEN [db EXCEPT !.fee_distributions =
               @ (+) SetToBag({[receiver_address |-> dist.recipient,
                                transaction_hash |-> sig,
                                amount |-> dist.amount]})]
       ELSE [db EXCEPT !.users[dist.recipient] = @ + dist.amount]

RECURSIVE ApplyStatements(_, _, _, _)
ApplyStatements(db, batch, sig, n) ==
  IF n = 0 THEN db
  ELSE Statement(ApplyStatements(db, batch, sig, n - 1), batch, sig, n)

\* a write without BEGIN/ROLLBACK: the statements before the failing one stay
AutocommitWrite(db, batch, sig, failAt) ==
  ApplyStatements(db, batch, sig,
                  IF failAt = 0 THEN 2 * Len(batch) ELSE failAt - 1)

\* BEGIN ... COMMIT, or ROLLBACK when statement failAt throws (0: none does)
LocalTransaction(db, batch, sig, failAt) ==
  IF failAt = 0 THEN ApplyStatements(db, batch, sig, 2 * Len(batch)) ELSE db

\* the statements of the local write that are made to fail
DbFailPoints == {1, 2}

\* ------------------------------------------------------------------ Init
BulkLedger == [k \in Recipients |-> [coin_id |-> k, sol_quantity |-> BigQty]]
MixedLedger == <<[coin_id |-> 1, sol_quantity |-> BigQty],
                 [coin_id |-> 2, sol_quantity |-> SmallQty]>>
InitialLedgers == {<<>>, MixedLedger, BulkLedger}

Init ==
  /\ transactions \in InitialLedgers
  /\ transaction_tracker = {}
  /\ fee_distributions = EmptyBag
  /\ users = [w \in Recipients |-> 0]
  /\ chain = {}
  /\ pc = [p \in PassIds |-> "idle"]
  /\ status = [p \in PassIds |-> "none"]
  /\ maxTransactionId = [p \in PassIds |-> 0]
  /\ window = [p \in PassIds |-> 0]
  /\ distributions = [p \in PassIds |-> <<>>]
  /\ i = [p \in PassIds |-> 0]
  /\ retryCount = [p \in PassIds |-> 0]
  /\ newMaxTransactionId = [p \in PassIds |-> 0]
  /\ started = 0
  /\ inserted = 0
  /\ faults = 0

\* --------------------------------------------------------------- actions
\* the quantities of the events added while the service runs
InsertedQuantities == {SmallQty}

\* the upstream ingestion process appends a ledger event
InsertEvent ==
  /\ inserted < MaxInserts
  /\ \E q \in InsertedQuantities :
       transactions' = Append(transactions, [coin_id |-> 2, sol_quantity |-> q])
  /\ inserted' = inserted + 1
  /\ UNCHANGED <<transaction_tracker, fee_distributions, users, chain, passVars,
                 started, faults>>

\* a handleCron without its try/catch: the error leaves the handler and the
\* pass never returns
AbortUncaught(p) ==
  /\ status' = [status EXCEPT ![p] = "Aborted"]
  /\ pc' = [pc EXCEPT ![p] = "thrown"]

\* processTransactions' catch: ROLLBACK, rethrow; handleCron logs the error
Abort(p) ==
  /\ status' = [status EXCEPT ![p] = "Aborted"]
  /\ pc' = [pc EXCEPT ![p] = "done"]

\* a catch that allows one attempt too many
CatchOffByOne(p) ==
  /\ retryCount' = [retryCount EXCEPT ![p] = @ + 1]
  /\ IF retryCount[p] + 1 <= MAX_RETRIES
       THEN /\ pc' = [pc EXCEPT ![p] = "batch"]
            /\ UNCHANGED status
       ELSE Abort(p)

\* the catch of sendSolanaTransactions (lines 365-378)
Catch(p) ==
  /\ retryCount' = [retryCount EXCEPT ![p] = @ + 1]
  /\ IF retryCount[p] + 1 < MAX_RETRIES
       THEN /\ pc' = [pc EXCEPT ![p] = "batch"]
            /\ UNCHANGED status
       ELSE Abort(p)

\* the cron trigger: handleCron calls processTransactions, which reads the
\* cursor and runs the aggregation query.  Nothing checks for a running pass.
HandleCron(p) ==
  /\ p = started + 1
  /\ pc[p] = "idle"
  /\ Cardinality({q \in PassIds : pc[q] \notin {"idle", "done"}}) < MaxRunning
  /\ started' = p
  /\ UNCHANGED <<transactions, transaction_tracker, fee_distributions, users, chain,
                 newMaxTransactionId, inserted>>
  /\ \/ \* the aggregation query throws, after the cursor was read
        /\ faults < MaxFaults
        /\ faults' = faults + 1
        /\ maxTransactionId' = [maxTransactionId EXCEPT ![p] = Cursor(transaction_tracker)]
        /\ Abort(p)
        /\ UNCHANGED <<window, distributions, i, retryCount>>
     \/ LET cursor == Cursor(transaction_tracker)
            rows == AccumulatedFees(transactions, cursor, NumRecipients)
        IN /\ maxTransactionId' = [maxTransactionId EXCEPT ![p] = cursor]
           /\ window' = [window EXCEPT ![p] = MaxId(transactions)]
           /\ distributions' = [distributions EXCEPT ![p] = rows]
           /\ i' = [i EXCEPT ![p] = 1]
           /\ UNCHANGED <<retryCount, faults>>
           /\ IF rows = <<>>
                THEN \* 'No new transactions to process', COMMIT
                     /\ status' = [status EXCEPT ![p] = "Committed"]
                     /\ pc' = [pc EXCEPT ![p] = "done"]
                ELSE /\ status' = [status EXCEPT ![p] = "Running"]
                     /\ pc' = [pc EXCEPT ![p] =
                                 IF validDistributions(rows) = <<>>
                                   THEN "readmax" ELSE "batch"]

\* what the network did with the transfer of the current attempt, and what
\* confirmTransaction told the service
Decided(p, posted, result) ==
  [signature |-> [pass |-> p, i |-> i[p], attempt |-> retryCount[p] + 1],
   transfers |-> Transfers(Batch(validDistributions(distributions[p]), i[p])),
   posted |-> posted,
   result |-> result]

\* a successful attempt that forgets success = true: the while loop goes on
NextBatchNoSuccess(p) == UNCHANGED <<i, retryCount, pc, status>>

\* the end of a successful attempt: success = true, the for loop's next batch
NextBatch(p) ==
  /\ i' = [i EXCEPT ![p] = @ + BATCH_SIZE]
  /\ retryCount' = [retryCount EXCEPT ![p] = 0]
  /\ pc' = [pc EXCEPT ![p] =
              IF i[p] + BATCH_SIZE <= Len(validDistributions(distributions[p]))
                THEN "batch" ELSE "readmax"]
  /\ UNCHANGED status

\* a failing call inside the try of lines 317-364
Fails(p) ==
  /\ faults < MaxFaults
  /\ faults' = faults + 1
  /\ Catch(p)
  /\ UNCHANGED i

\* the two tables the local write changes
Db == [fee_distributions |-> fee_distributions, users |-> users]

SetDb(db) ==
  /\ fee_distributions' = db.fee_distributions
  /\ users' = db.users

\* the amounts of the rows of pass p for wallet w, in the bag rows
RECURSIVE AmountOf(_, _, _, _)
AmountOf(rows, rs, p, w) ==
  IF rs = {} THEN 0
  ELSE LET r == CHOOSE x \in rs : TRUE
       IN (IF r.transaction_hash.pass = p /\ r.receiver_address = w
             THEN r.amount * rows[r] ELSE 0)
          + AmountOf(rows, rs \ {r}, p, w)

\* a ROLLBACK that also undid the local writes of the pass, as it would had
\* they been made on the pass's own client
RollbackAll(db, p) ==
  [fee_distributions |->
     [r \in {x \in DOMAIN db.fee_distributions : x.transaction_hash.pass # p}
        |-> db.fee_distributions[r]],
   users |->
     [w \in Recipients |->
        db.users[w] - AmountOf(db.fee_distributions, DOMAIN db.fee_distributions, p, w)]]

\* client.query('ROLLBACK') of processTransactions (line 453): it ends the
\* transaction of the pass's own client, which holds at most the row for
\* transaction_tracker; the local writes were committed on another client
\* (line 340) and stay
Rollback(db, p) == db

\* the tables after the catch of lines 365-378: unchanged on a retry; on the
\* last failure the error reaches processTransactions, which rolls back
Caught(db, p) ==
  IF retryCount[p] + 1 < MAX_RETRIES THEN db ELSE Rollback(db, p)

\* a confirmation check that lets every decided transfer through
ConfirmationIgnored(result) == TRUE

\* lines 333-335: the attempt goes on to the local write only when
\* confirmation.value.err is not set
ConfirmationOk(result) == result = "Confirmed"

\* one pass through the body of the while loop (lines 300-379) for the
\* current batch: build the transfer, getLatestBlockhash, sendTransaction,
\* confirmTransaction, then the local write
ProcessBatch(p) ==
  /\ pc[p] = "batch"
  /\ UNCHANGED <<transactions, transaction_tracker, maxTransactionId, window,
                 distributions, newMaxTransactionId, started, inserted>>
  /\ \/ \* getLatestBlockhash or sendTransaction throws: nothing was submitted
        /\ Fails(p)
        /\ SetDb(Caught(Db, p))
        /\ UNCHANGED chain
     \/ \* confirmTransaction throws (expired, unreachable): the transfer may
        \* have posted all the same
        /\ Fails(p)
        /\ SetDb(Caught(Db, p))
        /\ \/ chain' = chain \cup {Decided(p, TRUE, "TimedOut")}
           \/ chain' = chain
     \/ \* confirmTransaction returns: the transfer posted, or failed on the
        \* network (confirmation.value.err); the local write of lines 339-364
        \* follows the former
        \E result \in {"Confirmed", "Rejected"} :
          /\ chain' = chain \cup {Decided(p, result = "Confirmed", result)}
          /\ IF ConfirmationOk(result)
               THEN \E failAt \in {0} \cup DbFailPoints :
                    \E batch \in {Batch(validDistributions(distributions[p]), i[p])} :
                    \E signature \in {Decided(p, TRUE, result).signature} :
                    \E db \in {LocalTransaction(Db, batch, signature, failAt)} :
                      IF failAt = 0
                        THEN SetDb(db) /\ NextBatch(p) /\ UNCHANGED faults
                        ELSE SetDb(Caught(db, p)) /\ Fails(p)
               ELSE SetDb(Caught(Db, p)) /\ Fails(p)

\* SELECT MAX(id) FROM transactions, after the distributions
SelectMaxId(p) ==
  /\ pc[p] = "readmax"
  /\ newMaxTransactionId' = [newMaxTransactionId EXCEPT ![p] = MaxId(transactions)]
  /\ pc' = [pc EXCEPT ![p] = "insert"]
  /\ UNCHANGED <<transactions, transaction_tracker, fee_distributions, users, chain,
                 status, maxTransactionId, window, distributions, i, retryCount,
                 started, inserted, faults>>

\* INSERT INTO transaction_tracker and COMMIT, or ROLLBACK when either throws
InsertTracker(p) ==
  /\ pc[p] = "insert"
  /\ UNCHANGED <<transactions, chain, maxTransactionId, window, distributions, i,
                 retryCount, newMaxTransactionId, started, inserted>>
  /\ \/ /\ transaction_tracker' = transaction_tracker \cup
             {[timestamp |-> TxTimestamp(p),
               max_transaction_id |-> newMaxTransactionId[p]]}
        /\ status' = [status EXCEPT ![p] = "Committed"]
        /\ pc' = [pc EXCEPT ![p] = "done"]
        /\ UNCHANGED <<fee_distributions, users, faults>>
     \/ /\ faults < MaxFaults
        /\ faults' = faults + 1
        /\ Abort(p)
        /\ SetDb(Rollback(Db, p))
        /\ UNCHANGED transaction_tracker

Next ==
  \/ InsertEvent
  \/ \E p \in PassIds : HandleCron(p)
  \/ \E p \in PassIds : ProcessBatch(p)
  \/ \E p \in PassIds : SelectMaxId(p)
  \/ \E p \in PassIds : InsertTracker(p)

Spec == Init /\ [][Next]_vars

\* the steps of the service itself, on a ledger that no longer grows
ServiceNext ==
  \/ \E p \in PassIds : HandleCron(p)
  \/ \E p \in PassIds : ProcessBatch(p)
  \/ \E p \in PassIds : SelectMaxId(p)
  \/ \E p \in PassIds : InsertTracker(p)

\* every awaited call of a pass returns or throws, so a pass that has a next
\* step takes it; nothing is assumed about the cron trigger
Fairness ==
  \A p \in PassIds :
    /\ WF_vars(ProcessBatch(p))
    /\ WF_vars(SelectMaxId(p))
    /\ WF_vars(InsertTracker(p))

FairSpec == Init /\ [][ServiceNext]_vars /\ Fairness

\* ---------------------------------------------------------------- claims
\* the creator an event pays
RecipientOf(e) == coins[transactions[e].coin_id]

\* event e is in the window pass p aggregated: after its cursor, and in the
\* table when its aggregation query ran
InWindow(p, e) == maxTransactionId[p] < e /\ e <= window[p]

\* the decided transfer t carries a payment for the events of w that its pass
\* aggregated
PaysTo(t, w) == \E k \in DOMAIN t.transfers : t.transfers[k].toPubkey = w

\* fee_distributions rows, with their multiplicity
Rows == BagToSet(fee_distributions)

RECURSIVE Copies(_)
Copies(rs) ==
  IF rs = {} THEN 0
  ELSE LET r == CHOOSE x \in rs : TRUE
       IN CopiesIn(r, fee_distributions) + Copies(rs \ {r})

RECURSIVE Recorded(_)
Recorded(rs) ==
  IF rs = {} THEN 0
  ELSE LET r == CHOOSE x \in rs : TRUE
       IN r.amount * CopiesIn(r, fee_distributions) + Recorded(rs \ {r})

\* the rows that record a payout of event e
RowsPaying(e) ==
  {r \in Rows : /\ r.receiver_address = RecipientOf(e)
                /\ InWindow(r.transaction_hash.pass, e)}

SameBatch(t, u) ==
  t.signature.pass = u.signature.pass /\ t.signature.i = u.signature.i

\* u was submitted after t, in the same pass
Later(u, t) ==
  /\ u.signature.pass = t.signature.pass
  /\ \/ u.signature.i > t.signature.i
     \/ u.signature.i = t.signature.i /\ u.signature.attempt > t.signature.attempt

InFlight == {p \in PassIds : pc[p] \notin {"idle", "done"}}

\* C1: no ledger event is paid twice: each event contributes to at most one
\* Confirmed external transfer and to at most one fee_distributions row of
\* its recipient, whatever passes abort and run again.
C1_NoEventPaidTwice ==
  \A e \in 1..Len(transactions) :
    /\ Cardinality({t \in chain : /\ t.result = "Confirmed"
                                  /\ InWindow(t.signature.pass, e)
                                  /\ PaysTo(t, RecipientOf(e))}) <= 1
    /\ Copies(RowsPaying(e)) <= 1

\* C2: the cursor value a pass commits is the highest event id its own
\* aggregation saw, so every event up to a committed cursor was in the
\* aggregation window of some committed pass.
C2_CursorIsObservedMax ==
  \A r \in transaction_tracker :
    /\ r.max_transaction_id = window[r.timestamp]
    /\ \A e \in 1..r.max_transaction_id :
         \E p \in PassIds : status[p] = "Committed" /\ InWindow(p, e)

\* C3: at most one pass is in flight at any time: a trigger that fires
\* during a running pass starts nothing.
C3_SingleFlight == Cardinality(InFlight) <= 1

\* C4: the authoritative cursor (the latest transaction_tracker row by
\* timestamp) never decreases.
C4_MonotonicCursor ==
  [][Cursor(transaction_tracker') >= Cursor(transaction_tracker)]_vars

\* C5: a pass that aborts leaves the cursor unchanged: no transaction_tracker
\* row of that pass is visible, and the pass the next trigger starts reads
\* the cursor value the aborted pass read.
C5_AbortLeavesCursor ==
  [][/\ \A p \in PassIds :
          status'[p] = "Aborted" =>
            \A r \in transaction_tracker' : r.timestamp # TxTimestamp(p)
     /\ \A p \in PassIds :
          (/\ p + 1 \in PassIds
           /\ status[p] = "Aborted"
           /\ pc[p + 1] = "idle" /\ pc'[p + 1] # "idle")
          => maxTransactionId'[p + 1] = maxTransactionId[p]]_vars

\* C6: once the transfer of a batch was Confirmed, no further transfer is
\* submitted for that batch, also when the local write failed.
C6_NoFreshTransferAfterConfirm ==
  \A t \in chain :
    t.result = "Confirmed" => ~ \E u \in chain : SameBatch(t, u) /\ Later(u, t)

\* C7: a transfer that timed out but posted is not followed by a second
\* posted transfer for the same batch.
C7_TimedOutNotResubmitted ==
  \A t \in chain :
    (t.result = "TimedOut" /\ t.posted) =>
      ~ \E u \in chain : u # t /\ SameBatch(t, u) /\ u.posted

\* C8: a Rejected transfer aborts the pass at once: nothing more is
\* submitted in that pass, for that batch or a later one.
C8_RejectedAbortsPass ==
  \A t \in chain :
    t.result = "Rejected" =>
      /\ status[t.signature.pass] = "Aborted"
      /\ ~ \E u \in chain : Later(u, t)

C10_CursorCoversOnlyRecorded ==
  \A r \in transaction_tracker :
    \A e \in 1..r.max_transaction_id : RowsPaying(e) # {}

\* the rows pass p wrote
RowsOf(p) == {r \in Rows : r.transaction_hash.pass = p}

\* the amount the aggregation of pass p returned for wallet w (0: no row)
Aggregated(p, w) ==
  LET ks == {k \in DOMAIN distributions[p] : distributions[p][k].recipient = w}
  IN IF ks = {} THEN 0 ELSE distributions[p][CHOOSE k \in ks : TRUE].amount

\* what sendSolanaTransactions keeps of the rows of pass p
Valid(p) == validDistributions(distributions[p])

\* the values the for loop's i takes over n distributions
BatchStarts(n) == {s \in 1..n : (s - 1) % BATCH_SIZE = 0}

\* the local write of the batch of pass p that starts at s is committed, once:
\* every recipient of the batch has exactly one row of that pass, with the
\* aggregated amount and the signature of an attempt of that batch
BatchWritten(p, s) ==
  \A batch \in {Batch(Valid(p), s)} :
    \A k \in DOMAIN batch :
      \A mine \in {{r \in Rows : /\ r.receiver_address = batch[k].recipient
                                 /\ r.transaction_hash.pass = p}} :
        /\ Cardinality(mine) = 1
        /\ \A r \in mine : /\ CopiesIn(r, fee_distributions) = 1
                           /\ r.amount = batch[k].amount
                           /\ r.transaction_hash.i = s

\* the batch is written and the balance of each of its recipients holds the
\* amounts of the recipient's rows, this one included once
BatchRecorded(p, s) ==
  /\ BatchWritten(p, s)
  /\ \A batch \in {Batch(Valid(p), s)} :
       \A k \in DOMAIN batch :
         users[batch[k].recipient] =
           Recorded({r \in Rows : r.receiver_address = batch[k].recipient})

\* C11: no over-payment: for a committed pass and any recipient, the amounts
\* of the rows the pass wrote for the recipient sum to at most the amount its
\* aggregation computed for the recipient.
C11_NoOverPayment ==
  \A p \in PassIds :
    status[p] = "Committed" =>
      \A w \in Recipients :
        Recorded({r \in RowsOf(p) : r.receiver_address = w}) <= Aggregated(p, w)

\* a committed pass wrote rows after one of its transfers posted without rows
\* (a retry took place)
C11_Witness ==
  \E p \in PassIds :
    /\ status[p] = "Committed"
    /\ RowsOf(p) # {}
    /\ \E t \in chain :
         /\ t.signature.pass = p /\ t.posted
         /\ ~ \E r \in Rows : r.transaction_hash = t.signature

\* C12: a recipient whose amount over the window of a pass is below the
\* minimum threshold is in no transfer of that pass, has no row of that pass
\* and owes no balance to it.
C12_BelowThresholdUnpaid ==
  \A p \in PassIds : \A w \in Recipients :
    (/\ pc[p] # "idle"
     /\ total_sol(transactions, w, maxTransactionId[p], window[p]) < MIN_AMOUNT_THRESHOLD)
    => /\ ~ \E t \in chain : t.signature.pass = p /\ PaysTo(t, w)
       /\ ~ \E r \in RowsOf(p) : r.receiver_address = w
       /\ users[w] = Recorded({r \in Rows \ RowsOf(p) : r.receiver_address = w})

\* a pass paid one recipient while another had events in its window that
\* stayed below the threshold
C12_Witness ==
  \E p \in PassIds : \E w \in Recipients :
    /\ RowsOf(p) # {}
    /\ total_sol(transactions, w, maxTransactionId[p], window[p]) \in
         1..(MIN_AMOUNT_THRESHOLD - 1)

\* C14: when the first two attempts of a batch fail before anything is
\* submitted and the third is confirmed and written, every recipient of the
\* batch has exactly one row of the pass, the balance holds the amount once,
\* and the loop has moved on to the next batch.
C14_ThirdAttemptRecordsOnce ==
  \A t \in chain :
    LET p == t.signature.pass
    IN (/\ t.signature.attempt = MAX_RETRIES
        /\ t.result = "Confirmed"
        /\ ~ \E u \in chain : u # t /\ SameBatch(t, u)
        /\ ~ (status[p] = "Aborted" /\ i[p] = t.signature.i))
       => /\ BatchRecorded(p, t.signature.i)
          /\ i[p] >= t.signature.i + BATCH_SIZE

\* the first batch of two went through on its third attempt and the second
\* batch is next
C14_Witness ==
  \E t \in chain :
    /\ t.signature.attempt = MAX_RETRIES /\ t.signature.i = 1
    /\ t.result = "Confirmed"
    /\ ~ \E u \in chain : u # t /\ SameBatch(t, u)
    /\ pc[t.signature.pass] = "batch"
    /\ i[t.signature.pass] = 1 + BATCH_SIZE
    /\ \E r \in Rows : r.transaction_hash = t.signature

\* C15: a batch is attempted at most MAX_RETRIES times, and when the last
\* attempt fails the pass is Aborted, has no transaction_tracker row, has
\* submitted no later batch and has no row for a recipient of the batch.
C15_ExhaustedRetriesAbort ==
  /\ \A t \in chain : t.signature.attempt <= MAX_RETRIES
  /\ \A p \in PassIds :
       /\ retryCount[p] <= MAX_RETRIES
       /\ retryCount[p] = MAX_RETRIES =>
            /\ status[p] = "Aborted" /\ pc[p] = "done"
            /\ \A r \in transaction_tracker : r.timestamp # TxTimestamp(p)
            /\ ~ \E t \in chain : t.signature.pass = p /\ t.signature.i > i[p]
            /\ \A k \in DOMAIN Batch(Valid(p), i[p]) :
                 ~ \E r \in RowsOf(p) :
                     r.receiver_address = Batch(Valid(p), i[p])[k].recipient

\* a pass aborted on its third failure, one of the failed attempts having
\* posted its transfer
C15_Witness ==
  \E p \in PassIds :
    /\ retryCount[p] = MAX_RETRIES /\ status[p] = "Aborted"
    /\ \E t \in chain :
         t.signature.pass = p /\ t.signature.i = i[p] /\ t.posted

\* C16: every fee_distributions row carries the signature of a transfer that
\* was confirmed without error, and no balance is raised without a row.
C16_RecordsOnlyForConfirmed ==
  /\ \A r \in Rows :
       \E t \in chain :
         t.signature = r.transaction_hash /\ t.result = "Confirmed" /\ t.posted
  /\ \A w \in Recipients :
       users[w] > 0 => \E r \in Rows : r.receiver_address = w

\* a batch has rows although an earlier attempt of it was rejected or timed out
C16_Witness ==
  \E r \in Rows : \E u \in chain :
    /\ u.result \in {"Rejected", "TimedOut"}
    /\ u.signature.pass = r.transaction_hash.pass
    /\ u.signature.i = r.transaction_hash.i

\* C17: the batches of a pass are consecutive slices of at most BATCH_SIZE
\* distributions that cover every distribution exactly once, in order, and
\* a batch is submitted only when the batch before it is confirmed and written.
C17_SequentialBatches ==
  \A p \in PassIds :
    \A valid \in {Valid(p)} :
      \A batches \in {[s \in BatchStarts(Len(valid)) |-> Batch(valid, s)]} :
        /\ \A s \in DOMAIN batches : Len(batches[s]) \in 1..BATCH_SIZE
        /\ \A j \in 1..Len(valid) :
             \A holds \in {{s \in DOMAIN batches : j - s + 1 \in DOMAIN batches[s]}} :
               /\ Cardinality(holds) = 1
               /\ \A s \in holds : batches[s][j - s + 1] = valid[j]
        /\ \A t \in chain : t.signature.pass = p => t.signature.i \in DOMAIN batches
        /\ \A s \in {t.signature.i - BATCH_SIZE : t \in {u \in chain : u.signature.pass = p}}
                     \cup (IF pc[p] = "batch" THEN {i[p] - BATCH_SIZE} ELSE {}) :
             s >= 1 => /\ BatchWritten(p, s)
                       /\ \E u \in chain : /\ u.signature.pass = p /\ u.signature.i = s
                                           /\ u.result = "Confirmed"

\* the second batch of a pass was submitted
C17_Witness == \E t \in chain : t.signature.i = 1 + BATCH_SIZE

\* C18: the rows and balance increases of the batches a pass completed stay
\* when the pass aborts: its ROLLBACK undoes none of them.
C18_AbortKeepsEarlierBatches ==
  \A p \in PassIds :
    status[p] = "Aborted" =>
      \A s \in BatchStarts(Len(Valid(p))) : s < i[p] => BatchRecorded(p, s)

\* a pass aborted on its second batch after its first was recorded
C18_Witness ==
  \E p \in PassIds :
    /\ status[p] = "Aborted"
    /\ retryCount[p] = MAX_RETRIES
    /\ i[p] = 1 + BATCH_SIZE

\* C13: every pass that started ends Committed or Aborted with handleCron
\* returned; an aborted pass has returned (its error stayed inside
\* handleCron), and when it is the latest pass the next trigger can start
\* the pass after it.
C13_PassEndsNextStarts ==
  /\ \A p \in PassIds :
       (pc[p] \notin {"idle", "done"})
         ~> (pc[p] = "done" /\ status[p] \in {"Committed", "Aborted"})
  /\ [](\A p \in PassIds :
          /\ pc[p] = "done" => status[p] \in {"Committed", "Aborted"}
          /\ status[p] = "Aborted" =>
               /\ pc[p] = "done"
               /\ (/\ p = started /\ p + 1 \in PassIds
                   /\ Cardinality(InFlight) < MaxRunning)
                  => ENABLED HandleCron(p + 1))

\* a pass whose aggregation query threw was followed by a pass that paid
\* and committed
C13_Witness ==
  \E p \in PassIds :
    /\ p + 1 \in PassIds
    /\ status[p] = "Aborted" /\ i[p] = 0
    /\ status[p + 1] = "Committed" /\ RowsOf(p + 1) # {}

\* C19: a pass whose aggregation returned no row submits no transfer, writes
\* no fee_distributions row and no transaction_tracker row, and the events of
\* its window are still after the cursor when the next trigger fires, so
\* that the next pass aggregates them again.
C19_NoOpPassReaggregated ==
  \A p \in PassIds :
    (status[p] = "Committed" /\ distributions[p] = <<>>) =>
      /\ ~ \E t \in chain : t.signature.pass = p
      /\ RowsOf(p) = {}
      /\ \A r \in transaction_tracker : r.timestamp # TxTimestamp(p)
      /\ (p = started /\ InFlight = {}) =>
           \A e \in 1..Len(transactions) :
             InWindow(p, e) => Cursor(transaction_tracker) < e

====
